---- MODULE Spec2Model ----
(***************************************************************************)
(* Model of datasync.go: a one-shot directory sync that walks a local tree *)
(* and uploads every file that is newer than its remote copy, through an   *)
(* FTP session (ftpTarget) or a mounted SMB share (smbTarget).             *)
(*                                                                         *)
(* Strings are sequences of tokens.  A token is one character ("a", "/",   *)
(* "\\", ".") or one of the fixed multi-character literals of the program  *)
(* ("Z:", ".tmp"), so that concatenation, splitting and separator          *)
(* replacement behave as they do on the real strings.  The inputs contain  *)
(* no ".." element, so Clean does not model its elimination.               *)
(*                                                                         *)
(* A time.Time is a natural number; 0 is the zero Time (time.Time{}).      *)
(* Files that exist carry a non-zero modification time.                    *)
(***************************************************************************)
EXTENDS Integers, Sequences, FiniteSets, TLC

VARIABLES
    goos,        \* build target: "linux" or "windows" (selects path/filepath)
    ctype,       \* conf.Type as written in the config
    prefix,      \* cfg.RemotePath
    cwd,         \* working directory of the FTP session on the server
    rdirs,       \* remote directories (set of paths; a path is a sequence of names)
    rfiles,      \* remote files: path -> [data, mtime]
    pc,          \* position of main
    connected,   \* connectFTP / connectSMB returned a target
    live,        \* the session is open (connected and not yet closed)
    closeCalls,  \* number of closeFn invocations
    idx,         \* index in Tree of the entry WalkDir is at
    localInfo,   \* result of os.Stat(path): 0 is nil, else the ModTime
    remoteTime,  \* first result of getMTime(rel)
    mtimeErr,    \* second result of getMTime(rel) (discarded by main)
    err,         \* error returned by the callback / by WalkDir
    walkErr,     \* error WalkDir itself raised, "nil" if none
    putErr,      \* error returned by the last putFile call, "nil" if none
    lookups,     \* per entry: number of getMTime calls
    seenTime,    \* per entry: the remote timestamp main compared against
    uploads,     \* per entry: number of putFile calls
    progress,    \* per entry: number of progress lines printed
    complete,    \* the completion line was printed
    exitCode,    \* -1 while running, else the exit status of the process
    preDst,      \* content at the destination when the current upload began
    writeFailed, \* the current upload's write failed at some step
    mkdirFailed, \* a directory creation failed for another reason than "exists"
    refused,     \* the remote side refused to create a directory
    cl, cr, cres, cpc   \* harness of the comparator: inputs, result, position

vars == <<goos, ctype, prefix, cwd, rdirs, rfiles, pc, connected, live,
          closeCalls, idx, localInfo, remoteTime, mtimeErr, err, walkErr,
          putErr, lookups, seenTime, uploads, progress, complete, exitCode,
          preDst, writeFailed, mkdirFailed, refused, cl, cr, cres, cpc>>

driverVars == <<goos, ctype, prefix, cwd, rdirs, rfiles, pc, connected, live,
          closeCalls, idx, localInfo, remoteTime, mtimeErr, err, walkErr,
          putErr, lookups, seenTime, uploads, progress, complete, exitCode,
          preDst, writeFailed, mkdirFailed, refused>>

cmpVars == <<cl, cr, cres, cpc>>

(***************************************************************************)
(* Bounds                                                                  *)
(***************************************************************************)
MaxTime  == 3    \* modification times range over 1..MaxTime
MaxStamp == 7    \* the comparator harness draws its inputs from 0..MaxStamp
NChunks  == 2    \* a local file is copied in NChunks pieces

(***************************************************************************)
(* Errors.  errors.Is(err, os.ErrNotExist) is the only test main applies.  *)
(***************************************************************************)
Nil         == "nil"
ErrNotExist == "ErrNotExist"
ErrDenied   == "EACCES"
ErrIO       == "EIO"
ErrFTP      == "ftp550"

ErrorsIs(e, target) == e = target

(***************************************************************************)
(* Strings                                                                 *)
(***************************************************************************)
Empty == << >>

Separator == IF goos = "windows" THEN "\\" ELSE "/"

PathSeps == IF goos = "windows" THEN {"/", "\\"} ELSE {"/"}

IsPathSeparator(c) == c \in PathSeps

\* strings.Split(s, sep) for the one-token separators in seps: the pieces
\* between consecutive separator positions
StringsSplit(s, seps) ==
    LET cuts  == {i \in 1..Len(s) : s[i] \in seps}
        from  == {0} \cup cuts
        upto  == cuts \cup {Len(s) + 1}
        nth(A, k) == CHOOSE x \in A : Cardinality({y \in A : y < x}) = k - 1
    IN  [k \in 1..(Cardinality(cuts) + 1) |->
            SubSeq(s, nth(from, k) + 1, nth(upto, k) - 1)]

\* strings.Join(elems, sep)
RECURSIVE StringsJoin(_, _)
StringsJoin(elems, sep) ==
    IF elems = << >> THEN Empty
    ELSE IF Len(elems) = 1 THEN elems[1]
    ELSE elems[1] \o <<sep>> \o StringsJoin(Tail(elems), sep)

\* strings.ToLower on the transport kinds the configurations use
ToLower(s) ==
    CASE s = "FTP" -> "ftp"
      [] s = "Ftp" -> "ftp"
      [] s = "SMB" -> "smb"
      [] s = "Smb" -> "smb"
      [] OTHER     -> s

\* filepath.VolumeName: only drive letters occur ("Z:")
VolumeName(path) ==
    IF goos = "windows" /\ Len(path) > 0 /\ path[1] = "Z:" THEN <<"Z:">> ELSE Empty

IsName(seg) == seg # Empty /\ seg # <<".">>

\* filepath.Clean
Clean(path) ==
    LET vol    == VolumeName(path)
        rest   == SubSeq(path, Len(vol) + 1, Len(path))
        rooted == Len(rest) > 0 /\ IsPathSeparator(rest[1])
        segs   == SelectSeq(StringsSplit(rest, PathSeps), IsName)
        body   == (IF rooted THEN <<Separator>> ELSE Empty)
                     \o StringsJoin(segs, Separator)
    IN  IF body = Empty THEN vol \o <<".">> ELSE vol \o body

\* the builder loop of filepath.Join on windows: no separator after "Z:"
RECURSIVE JoinWindows(_, _)
JoinWindows(b, elems) ==
    IF elems = << >> THEN b
    ELSE LET e == elems[1]
             nb == IF b = Empty THEN e
                   ELSE IF IsPathSeparator(b[Len(b)]) \/ b[Len(b)] = "Z:"
                        THEN b \o e
                        ELSE b \o <<"\\">> \o e
         IN  JoinWindows(nb, Tail(elems))

NonEmpty(s) == s # Empty

\* filepath.Join
Join(elems) ==
    LET ne == SelectSeq(elems, NonEmpty)
    IN  IF ne = << >> THEN Empty
        ELSE IF goos = "windows" THEN Clean(JoinWindows(Empty, ne))
        ELSE Clean(StringsJoin(ne, "/"))

\* index of the last path separator at or after the volume name, else Len(vol)
LastSep(path) ==
    LET vol == VolumeName(path)
        S   == {i \in (Len(vol)+1)..Len(path) : IsPathSeparator(path[i])}
    IN  IF S = {} THEN Len(vol)
        ELSE CHOOSE i \in S : \A j \in S : j <= i

\* filepath.Dir
Dir(path) ==
    LET vol == VolumeName(path)
    IN  vol \o Clean(SubSeq(path, Len(vol) + 1, LastSep(path)))

\* filepath.Base (the paths given have no trailing separator)
Base(path) ==
    LET b == SubSeq(path, LastSep(path) + 1, Len(path))
    IN  IF b = Empty THEN <<".">> ELSE b

\* strings.ReplaceAll(s, old, new) for one-token old and new
ReplaceAll(s, old, new) ==
    SubSeq([i \in 1..Len(s) |-> IF s[i] = old THEN new ELSE s[i]], 1, Len(s))

ToSlashIdentity(path) == path

\* filepath.ToSlash
ToSlash(path) ==
    IF Separator = "/" THEN path ELSE ReplaceAll(path, Separator, "/")

(***************************************************************************)
(* The local tree, in the lexical order filepath.WalkDir visits it.  Entry *)
(* 1 is the root.  segs are the names from the root down to the entry.     *)
(***************************************************************************)
Tree ==
    << [segs |-> << >>,                    dir |-> TRUE,  mtime |-> 0],
       [segs |-> << <<"a">> >>,            dir |-> FALSE, mtime |-> 2],
       [segs |-> << <<"a", ".tmp">> >>,    dir |-> FALSE, mtime |-> 1],
       [segs |-> << <<"s">> >>,            dir |-> TRUE,  mtime |-> 0],
       [segs |-> << <<"s">>, <<"c">> >>,   dir |-> FALSE, mtime |-> 2] >>

Entries == 1..Len(Tree)
Files   == {i \in Entries : ~Tree[i].dir}

\* the content of local file i, as NChunks pieces
Content(i) == [k \in 1..NChunks |-> ToString(i)]

\* filepath.Rel(root, path) followed by filepath.ToSlash
RelOf(i) == ToSlash(StringsJoin(Tree[i].segs, Separator))

(***************************************************************************)
(* The comparator                                                          *)
(***************************************************************************)
IsZero(t) == t = 0

After(t, u) == t > u

newerOrEqual(local, remote) == IsZero(remote) \/ ~After(remote, local)

newerNoZero(local, remote) == After(local, remote)

newer(local, remote) == IsZero(remote) \/ After(local, remote)

(***************************************************************************)
(* The remote side.  A remote path is a sequence of names from the root of *)
(* the server / of the share.                                              *)
(***************************************************************************)
Parent(p) == SubSeq(p, 1, Len(p) - 1)

Ancestors(p) == {SubSeq(p, 1, k) : k \in 0..(Len(p) - 1)}

Put(fs, p, rec) == [q \in (DOMAIN fs) \cup {p} |-> IF q = p THEN rec ELSE fs[q]]

Remove(fs, p) == [q \in (DOMAIN fs) \ {p} |-> fs[q]]

Take(data, k) == SubSeq(data, 1, k)

\* how the FTP server reads a path argument: "/" separates, a leading "/"
\* is the server root, anything else is relative to the session's directory
FtpResolve(p) ==
    LET names == SelectSeq(StringsSplit(p, {"/"}), IsName)
    IN  IF Len(p) > 0 /\ p[1] = "/" THEN names ELSE cwd \o names

\* how the OS reads a path on the mapped drive
SmbResolve(p) ==
    LET vol == VolumeName(p)
    IN  SelectSeq(StringsSplit(SubSeq(p, Len(vol) + 1, Len(p)), PathSeps), IsName)

(***************************************************************************)
(* ftpTarget                                                               *)
(***************************************************************************)
ftpMtimeAnyEntry(rel, listFails) ==
    LET d == FtpResolve(ToSlash(Join(<<prefix, Dir(rel)>>)))
        E == {f \in DOMAIN rfiles : Len(f) > 0 /\ Parent(f) = d}
    IN  IF listFails \/ d \notin rdirs THEN [t |-> 0, e |-> ErrFTP]
        ELSE IF E # {} THEN [t |-> rfiles[CHOOSE f \in E : TRUE].mtime, e |-> Nil]
        ELSE [t |-> 0, e |-> ErrNotExist]

\* ftpTarget.mtime; listFails: the LIST command fails on the wire
ftpMtime(rel, listFails) ==
    LET remoteDir == ToSlash(Join(<<prefix, Dir(rel)>>))
        d         == FtpResolve(remoteDir)
        base      == Base(rel)
    IN  IF listFails \/ d \notin rdirs THEN [t |-> 0, e |-> ErrFTP]
        ELSE IF (d \o <<base>>) \in DOMAIN rfiles
             THEN [t |-> rfiles[d \o <<base>>].mtime, e |-> Nil]
             ELSE [t |-> 0, e |-> ErrNotExist]

ftpRemote(rel) == ToSlash(Join(<<prefix, rel>>))

\* one MKD: the directories afterwards, and whether it failed for another
\* reason than the directory existing
MakeDir(D, p, allowed) ==
    LET r == FtpResolve(p)
    IN  IF p # Empty /\ r \in D THEN [dirs |-> D, failed |-> FALSE]
        ELSE IF p # Empty /\ allowed /\ Parent(r) \in D
             THEN [dirs |-> D \cup {r}, failed |-> FALSE]
             ELSE [dirs |-> D, failed |-> TRUE]

\* the loop of ftpTarget.upload over the segments of dir
RECURSIVE MakeDirChain(_, _, _, _)
MakeDirChain(dirs, p, st, allowed) ==
    IF dirs = << >> THEN st
    ELSE LET np == Join(<<p, dirs[1]>>)
             m  == MakeDir(st.dirs, np, allowed)
         IN  MakeDirChain(Tail(dirs), np,
                 [dirs |-> m.dirs, failed |-> st.failed \/ m.failed], allowed)

ftpMakeDirs(rel, allowed) ==
    LET dir == Dir(ftpRemote(rel))
        st0 == [dirs |-> rdirs, failed |-> FALSE]
    IN  IF dir # Empty /\ dir # <<".">>
        THEN MakeDirChain(StringsSplit(dir, {"/"}), Empty, st0, allowed)
        ELSE st0

(***************************************************************************)
(* smbTarget                                                               *)
(***************************************************************************)
drive == <<"Z:">>

toRemote(rel) ==
    LET r == IF prefix # Empty THEN Join(<<prefix, rel>>) ELSE rel
    IN  Join(<<drive, r>>)

\* smbTarget.mtime; statFails: os.Stat fails for another reason than absence
smbMtime(rel, statFails) ==
    LET p == SmbResolve(toRemote(rel))
    IN  IF statFails THEN [t |-> 0, e |-> ErrIO]
        ELSE IF p \in DOMAIN rfiles THEN [t |-> rfiles[p].mtime, e |-> Nil]
        ELSE [t |-> 0, e |-> ErrNotExist]

smbDst(rel) == toRemote(rel)

smbTmp(rel) == smbDst(rel) \o <<".tmp">>

(***************************************************************************)
(* main                                                                    *)
(***************************************************************************)
Kind == ToLower(ctype)

\* the path getMTime looks at, and putFile writes to, for entry i
RemotePathOf(i) ==
    IF Kind = "ftp"
    THEN FtpResolve(ToSlash(Join(<<prefix, Dir(RelOf(i))>>))) \o <<Base(RelOf(i))>>
    ELSE SmbResolve(toRemote(RelOf(i)))

FatalAlways(e) == e # Nil

\* the test of line 183
Fatal(e) == e # Nil /\ ~ErrorsIs(e, ErrNotExist)

(***************************************************************************)
(* Initial states: a configuration, and a remote side that holds any       *)
(* subset of the tree's files, each with any modification time, together   *)
(* with the directories those files lie in.                                *)
(***************************************************************************)
Types    == {"ftp", "Ftp", "smb", "SMB", "nfs"}
Prefixes == { Empty, <<"d">>, <<"/", "d">> }
Root     == << >>
Home     == << <<"h">> >>

Absent == <<"absent">>

ZeroCount == [i \in Entries |-> 0]

\* the remote directory the tree is mirrored into: the session's directory
\* (FTP, relative base path) or the root, then the base path; on linux the
\* drive "Z:" is a directory name like any other
PrefixNames == IF prefix = Empty THEN << >> ELSE << <<"d">> >>

RemoteBase ==
    (IF Kind = "ftp" THEN (IF prefix # Empty /\ prefix[1] = "/" THEN Root ELSE cwd)
     ELSE IF goos = "windows" THEN Root ELSE <<drive>>) \o PrefixNames

InitRemote(rinit) ==
    /\ rfiles = [p \in {RemoteBase \o Tree[i].segs : i \in {j \in Files : rinit[j] # 0}} |->
                    LET i == CHOOSE j \in Files : RemoteBase \o Tree[j].segs = p
                    IN  [data |-> <<"old">>, mtime |-> rinit[i]]]
    /\ rdirs = {Root, cwd} \cup UNION {Ancestors(p) : p \in DOMAIN rfiles}

InitDriver ==
    /\ goos \in {"linux", "windows"}
    /\ ctype \in Types
    /\ prefix \in (IF Kind = "nfs" THEN {Empty} ELSE Prefixes)
    /\ cwd \in (IF Kind = "ftp" THEN {Root, Home} ELSE {Root})
    /\ \E rinit \in [Files -> 0..MaxTime] :
          /\ Kind = "nfs" => \A i \in Files : rinit[i] = 0
          /\ InitRemote(rinit)
    /\ pc = "start"
    /\ connected = FALSE
    /\ live = FALSE
    /\ closeCalls = 0
    /\ idx = 0
    /\ localInfo = 0
    /\ remoteTime = 0
    /\ mtimeErr = Nil
    /\ err = Nil
    /\ walkErr = Nil
    /\ putErr = Nil
    /\ lookups = ZeroCount
    /\ seenTime = ZeroCount
    /\ uploads = ZeroCount
    /\ progress = ZeroCount
    /\ complete = FALSE
    /\ exitCode = -1
    /\ preDst = Absent
    /\ writeFailed = FALSE
    /\ mkdirFailed = FALSE
    /\ refused = FALSE

CmpIdle == cl = 0 /\ cr = 0 /\ cres = FALSE /\ cpc = "idle"

Init == InitDriver /\ CmpIdle

\* the content at a remote path, Absent if there is no file
ContentAt(p) == IF p \in DOMAIN rfiles THEN rfiles[p].data ELSE Absent

(***************************************************************************)
(* main, lines 154-164: select and connect the backend                     *)
(***************************************************************************)
LogFatal ==
    /\ pc' = "exited"
    /\ exitCode' = 1

ConnectFailedIgnored ==
    /\ pc' = "walk"
    /\ idx' = 1
    /\ UNCHANGED <<connected, live, exitCode>>

\* lines 156 and 159: if err != nil { log.Fatal(err) }
ConnectFailed ==
    /\ LogFatal
    /\ UNCHANGED <<connected, live, idx>>

SupportedAny(k) == TRUE

\* lines 154-164: the cases "ftp" and "smb" of the switch; any other kind
\* falls to the default case
Supported(k) == k \in {"ftp", "smb"}

Connect ==
    /\ pc = "start"
    /\ IF Supported(Kind)
       THEN \/ /\ connected' = TRUE
               /\ live' = TRUE
               /\ pc' = "walk"
               /\ idx' = 1
               /\ UNCHANGED exitCode
            \/ ConnectFailed
       ELSE /\ LogFatal
            /\ UNCHANGED <<connected, live, idx>>
    /\ UNCHANGED <<goos, ctype, prefix, cwd, rdirs, rfiles, closeCalls,
                   localInfo, remoteTime, mtimeErr, err, walkErr, putErr,
                   lookups, seenTime, uploads, progress, complete, preDst,
                   writeFailed, mkdirFailed, refused>>
    /\ UNCHANGED cmpVars

(***************************************************************************)
(* filepath.WalkDir and the callback of lines 167-182                      *)
(***************************************************************************)
walkFrame == <<goos, ctype, prefix, cwd, connected, live, closeCalls,
               complete, exitCode>>

\* WalkDir has visited every entry and returns nil
WalkDone ==
    /\ pc = "walk"
    /\ idx > Len(Tree)
    /\ err' = Nil
    /\ pc' = "main_end"
    /\ UNCHANGED <<rdirs, rfiles, idx, localInfo, remoteTime, mtimeErr, walkErr,
                   putErr, lookups, seenTime, uploads, progress, preDst,
                   writeFailed, mkdirFailed, refused>>
    /\ UNCHANGED walkFrame
    /\ UNCHANGED cmpVars

\* a directory (line 168): the callback returns nil, or lstat / ReadDir
\* fails and the callback returns walkErr, which ends the walk
WalkDirEntry ==
    /\ pc = "walk"
    /\ idx \in Entries
    /\ Tree[idx].dir
    /\ \/ /\ idx' = idx + 1
          /\ UNCHANGED <<pc, err, walkErr>>
       \/ \E e \in {ErrNotExist, ErrDenied, ErrIO} :
          /\ walkErr' = e
          /\ err' = e
          /\ pc' = "main_end"
          /\ UNCHANGED idx
    /\ UNCHANGED <<rdirs, rfiles, localInfo, remoteTime, mtimeErr, putErr,
                   lookups, seenTime, uploads, progress, preDst, writeFailed,
                   mkdirFailed, refused>>
    /\ UNCHANGED walkFrame
    /\ UNCHANGED cmpVars

\* a file, lines 168-172: rel is RelOf(idx); os.Stat(path) may fail
VisitFile ==
    /\ pc = "walk"
    /\ idx \in Files
    /\ localInfo' \in {0, Tree[idx].mtime}
    /\ pc' = "mtime"
    /\ UNCHANGED <<rdirs, rfiles, idx, remoteTime, mtimeErr, err, walkErr,
                   putErr, lookups, seenTime, uploads, progress, preDst,
                   writeFailed, mkdirFailed, refused>>
    /\ UNCHANGED walkFrame
    /\ UNCHANGED cmpVars

\* what the callback does with the error of getMTime: nothing (line 173
\* assigns it to the blank identifier), so the callback goes on
LookupErrorReturnedIfAny(e) == e # Nil

LookupErrorReturned(e) == FALSE

\* line 173: remoteTime, _ := getMTime(rel)
GetMTime ==
    /\ pc = "mtime"
    /\ \E fails \in BOOLEAN :
          LET r == IF Kind = "ftp" THEN ftpMtime(RelOf(idx), fails)
                   ELSE smbMtime(RelOf(idx), fails)
          IN  /\ remoteTime' = r.t
              /\ mtimeErr' = r.e
              /\ seenTime' = [seenTime EXCEPT ![idx] = r.t]
              /\ IF LookupErrorReturned(r.e)
                 THEN pc' = "main_end" /\ err' = r.e
                 ELSE pc' = "decide" /\ UNCHANGED err
    /\ lookups' = [lookups EXCEPT ![idx] = @ + 1]
    /\ UNCHANGED <<rdirs, rfiles, idx, localInfo, walkErr, putErr,
                   uploads, progress, preDst, writeFailed, mkdirFailed, refused>>
    /\ UNCHANGED walkFrame
    /\ UNCHANGED cmpVars

\* the deferred closeFn runs and the process ends with the given status
RunDeferredAndExit(code) ==
    /\ closeCalls' = closeCalls + 1
    /\ live' = FALSE
    /\ exitCode' = code
    /\ pc' = "exited"

ProgressLineOmitted(n) == n

\* line 176: fmt.Printf prints one progress line for the file; n lines were
\* printed for it before
ProgressLine(n) == n + 1

\* lines 175-176: localInfo.ModTime() panics on a nil localInfo (the
\* deferred close runs while the panic unwinds, exit status 2); otherwise
\* the comparator decides, and a progress line precedes putFile
Decide ==
    /\ pc = "decide"
    /\ IF localInfo = 0
       THEN /\ RunDeferredAndExit(2)
            /\ UNCHANGED <<idx, uploads, progress, preDst, writeFailed, putErr>>
       ELSE IF newer(localInfo, remoteTime)
       THEN /\ progress' = [progress EXCEPT ![idx] = ProgressLine(@)]
            /\ uploads' = [uploads EXCEPT ![idx] = @ + 1]
            /\ preDst' = ContentAt(RemotePathOf(idx))
            /\ writeFailed' = FALSE
            /\ putErr' = Nil
            /\ pc' = IF Kind = "ftp" THEN "ftp_mkdir" ELSE "smb_mkdir"
            /\ UNCHANGED <<idx, closeCalls, live, exitCode>>
       ELSE /\ idx' = idx + 1
            /\ pc' = "walk"
            /\ UNCHANGED <<uploads, progress, preDst, writeFailed, putErr,
                           closeCalls, live, exitCode>>
    /\ UNCHANGED <<goos, ctype, prefix, cwd, connected, complete, rdirs, rfiles,
                   localInfo, remoteTime, mtimeErr, err, walkErr, lookups,
                   seenTime, mkdirFailed, refused>>
    /\ UNCHANGED cmpVars

PutErrorSwallowed(e) == FALSE

\* line 177: if err := putFile(path, rel); err != nil
PutErrorReturned(e) == e # Nil

\* lines 177-181: an error of putFile is returned, which ends the walk
PutReturn ==
    /\ pc = "put_ret"
    /\ IF PutErrorReturned(putErr)
       THEN /\ err' = putErr
            /\ pc' = "main_end"
            /\ UNCHANGED idx
       ELSE /\ idx' = idx + 1
            /\ pc' = "walk"
            /\ UNCHANGED err
    /\ UNCHANGED <<rdirs, rfiles, localInfo, remoteTime, mtimeErr, walkErr,
                   putErr, lookups, seenTime, uploads, progress, preDst,
                   writeFailed, mkdirFailed, refused>>
    /\ UNCHANGED walkFrame
    /\ UNCHANGED cmpVars

\* lines 183-187: log.Fatal exits at once, without running the deferred
\* closeFn; otherwise the completion line is printed and main returns,
\* which runs the deferred closeFn
MainEnd ==
    /\ pc = "main_end"
    /\ IF Fatal(err)
       THEN /\ LogFatal
            /\ UNCHANGED <<closeCalls, live, complete>>
       ELSE /\ complete' = TRUE
            /\ RunDeferredAndExit(0)
    /\ UNCHANGED <<goos, ctype, prefix, cwd, connected, rdirs, rfiles, idx,
                   localInfo, remoteTime, mtimeErr, err, walkErr, putErr,
                   lookups, seenTime, uploads, progress, preDst, writeFailed,
                   mkdirFailed, refused>>
    /\ UNCHANGED cmpVars

(***************************************************************************)
(* ftpTarget.upload, lines 79-95                                           *)
(***************************************************************************)
putFrame == <<goos, ctype, prefix, cwd, connected, live, closeCalls, complete,
              exitCode, idx, localInfo, remoteTime, mtimeErr, err, walkErr,
              lookups, seenTime, uploads, progress, preDst>>

\* lines 80-90: the MKD chain; every MakeDir error is dropped
FtpMakeDirs ==
    /\ pc = "ftp_mkdir"
    /\ \E allowed \in BOOLEAN :
          LET st == ftpMakeDirs(RelOf(idx), allowed)
          IN  /\ rdirs' = st.dirs
              /\ mkdirFailed' = (mkdirFailed \/ st.failed)
              /\ refused' = (refused \/ (st.failed /\ ~allowed))
    /\ pc' = "ftp_open"
    /\ UNCHANGED <<rfiles, putErr, writeFailed>>
    /\ UNCHANGED putFrame
    /\ UNCHANGED cmpVars

\* lines 91-92: os.Open(local)
FtpOpen ==
    /\ pc = "ftp_open"
    /\ \/ /\ pc' = "ftp_stor"
          /\ UNCHANGED putErr
       \/ \E e \in {ErrNotExist, ErrDenied} :
          /\ putErr' = e
          /\ pc' = "put_ret"
    /\ UNCHANGED <<rdirs, rfiles, writeFailed, mkdirFailed, refused>>
    /\ UNCHANGED putFrame
    /\ UNCHANGED cmpVars

\* line 94: STOR; the server refuses it, or k pieces arrive
FtpStor ==
    /\ pc = "ftp_stor"
    /\ LET r == FtpResolve(ftpRemote(RelOf(idx)))
       IN  \/ /\ putErr' = ErrFTP
              /\ UNCHANGED rfiles
           \/ /\ Parent(r) \in rdirs
              /\ \E k \in 0..NChunks :
                    /\ rfiles' = Put(rfiles, r,
                          [data |-> Take(Content(idx), k), mtime |-> MaxTime])
                    /\ putErr' = IF k < NChunks THEN ErrFTP ELSE Nil
    /\ writeFailed' = (putErr' # Nil)
    /\ pc' = "put_ret"
    /\ UNCHANGED <<rdirs, mkdirFailed, refused>>
    /\ UNCHANGED putFrame
    /\ UNCHANGED cmpVars

(***************************************************************************)
(* smbTarget.upload, lines 122-137                                         *)
(***************************************************************************)
\* lines 123-124: os.MkdirAll, its error dropped
SmbMkdirAll ==
    /\ pc = "smb_mkdir"
    /\ LET d == SmbResolve(Dir(smbDst(RelOf(idx))))
       IN  IF d \in rdirs
           THEN UNCHANGED <<rdirs, mkdirFailed, refused>>
           ELSE \/ /\ rdirs' = rdirs \cup Ancestors(d) \cup {d}
                   /\ UNCHANGED <<mkdirFailed, refused>>
                \/ /\ mkdirFailed' = TRUE
                   /\ refused' = TRUE
                   /\ UNCHANGED rdirs
    /\ pc' = "smb_open"
    /\ UNCHANGED <<rfiles, putErr, writeFailed>>
    /\ UNCHANGED putFrame
    /\ UNCHANGED cmpVars

\* lines 125-126: os.Open(local)
SmbOpen ==
    /\ pc = "smb_open"
    /\ \/ /\ pc' = "smb_create"
          /\ UNCHANGED putErr
       \/ \E e \in {ErrNotExist, ErrDenied} :
          /\ putErr' = e
          /\ pc' = "put_ret"
    /\ UNCHANGED <<rdirs, rfiles, writeFailed, mkdirFailed, refused>>
    /\ UNCHANGED putFrame
    /\ UNCHANGED cmpVars

\* lines 129-131: os.Create(tmp) truncates or creates the temporary file
SmbCreate ==
    /\ pc = "smb_create"
    /\ LET t == SmbResolve(smbTmp(RelOf(idx)))
       IN  IF Parent(t) \notin rdirs
           THEN /\ putErr' = ErrNotExist
                /\ writeFailed' = TRUE
                /\ pc' = "put_ret"
                /\ UNCHANGED rfiles
           ELSE \/ /\ putErr' = ErrDenied
                   /\ writeFailed' = TRUE
                   /\ pc' = "put_ret"
                   /\ UNCHANGED rfiles
                \/ /\ rfiles' = Put(rfiles, t, [data |-> Empty, mtime |-> MaxTime])
                   /\ pc' = "smb_copy"
                   /\ UNCHANGED <<putErr, writeFailed>>
    /\ UNCHANGED <<rdirs, mkdirFailed, refused>>
    /\ UNCHANGED putFrame
    /\ UNCHANGED cmpVars

\* lines 132-134: io.Copy writes k pieces; fewer than all is an error
SmbCopy ==
    /\ pc = "smb_copy"
    /\ LET t == SmbResolve(smbTmp(RelOf(idx)))
       IN  \E k \in 0..NChunks :
              /\ rfiles' = Put(rfiles, t,
                    [data |-> Take(Content(idx), k), mtime |-> MaxTime])
              /\ IF k < NChunks
                 THEN /\ putErr' = ErrIO
                      /\ writeFailed' = TRUE
                      /\ pc' = "put_ret"
                 ELSE /\ pc' = "smb_close"
                      /\ UNCHANGED <<putErr, writeFailed>>
    /\ UNCHANGED <<rdirs, mkdirFailed, refused>>
    /\ UNCHANGED putFrame
    /\ UNCHANGED cmpVars

\* line 135: out.Close(); a failing close reports writes that did not reach
\* the share, so any prefix of the content may be what the file holds; the
\* error is dropped
SmbClose ==
    /\ pc = "smb_close"
    /\ \/ UNCHANGED <<rfiles, writeFailed>>
       \/ LET t == SmbResolve(smbTmp(RelOf(idx)))
          IN  \E k \in 0..NChunks :
                 /\ rfiles' = Put(rfiles, t,
                       [data |-> Take(Content(idx), k), mtime |-> MaxTime])
                 /\ writeFailed' = TRUE
    /\ pc' = "smb_rename"
    /\ UNCHANGED <<rdirs, putErr, mkdirFailed, refused>>
    /\ UNCHANGED putFrame
    /\ UNCHANGED cmpVars

\* line 136: os.Rename(tmp, dst)
SmbRename ==
    /\ pc = "smb_rename"
    /\ LET t == SmbResolve(smbTmp(RelOf(idx)))
           d == SmbResolve(smbDst(RelOf(idx)))
       IN  \/ /\ putErr' = ErrDenied
              /\ UNCHANGED rfiles
           \/ /\ rfiles' = Remove(Put(rfiles, d, rfiles[t]), t)
              /\ putErr' = Nil
    /\ pc' = "put_ret"
    /\ UNCHANGED <<rdirs, writeFailed, mkdirFailed, refused>>
    /\ UNCHANGED putFrame
    /\ UNCHANGED cmpVars

(***************************************************************************)
(* The program                                                             *)
(***************************************************************************)
Next ==
    \/ Connect
    \/ WalkDone
    \/ WalkDirEntry
    \/ VisitFile
    \/ GetMTime
    \/ Decide
    \/ FtpMakeDirs
    \/ FtpOpen
    \/ FtpStor
    \/ SmbMkdirAll
    \/ SmbOpen
    \/ SmbCreate
    \/ SmbCopy
    \/ SmbClose
    \/ SmbRename
    \/ PutReturn
    \/ MainEnd

Spec == Init /\ [][Next]_vars

(***************************************************************************)
(* The comparator on its own: every pair of timestamps of 0..MaxStamp      *)
(***************************************************************************)
DriverIdle ==
    /\ goos = "linux"
    /\ ctype = "nfs"
    /\ prefix = Empty
    /\ cwd = Root
    /\ rdirs = {Root}
    /\ rfiles = [p \in {} |-> Absent]
    /\ pc = "idle"
    /\ connected = FALSE
    /\ live = FALSE
    /\ closeCalls = 0
    /\ idx = 0
    /\ localInfo = 0
    /\ remoteTime = 0
    /\ mtimeErr = Nil
    /\ err = Nil
    /\ walkErr = Nil
    /\ putErr = Nil
    /\ lookups = ZeroCount
    /\ seenTime = ZeroCount
    /\ uploads = ZeroCount
    /\ progress = ZeroCount
    /\ complete = FALSE
    /\ exitCode = -1
    /\ preDst = Absent
    /\ writeFailed = FALSE
    /\ mkdirFailed = FALSE
    /\ refused = FALSE

InitNewer ==
    /\ DriverIdle
    /\ cl \in 0..MaxStamp
    /\ cr \in 0..MaxStamp
    /\ cres = FALSE
    /\ cpc = "in"

ApplyNewer ==
    /\ cpc = "in"
    /\ cres' = newer(cl, cr)
    /\ cpc' = "out"
    /\ UNCHANGED <<cl, cr>>
    /\ UNCHANGED driverVars

NextNewer == ApplyNewer

SpecNewer == InitNewer /\ [][NextNewer]_vars

(***************************************************************************)
(* Properties                                                              *)
(***************************************************************************)
Exited == pc = "exited"

Done   == Exited /\ complete /\ exitCode = 0

Failed == Exited /\ ~complete /\ exitCode # 0

\* the walk was cut short: the callback or WalkDir returned an error, or
\* the process ended otherwise than by main returning
Aborted == err # Nil \/ exitCode \notin {-1, 0}

Uploading == pc \in {"ftp_mkdir", "ftp_open", "ftp_stor", "smb_mkdir",
                     "smb_open", "smb_create", "smb_copy", "smb_close",
                     "smb_rename"}

\* a proper prefix of the local content of entry i
Partial(data, i) == \E k \in 0..(NChunks - 1) : data = Take(Content(i), k)

\* C1: in every run where connect succeeded, closeFn has been invoked
\* exactly once when the process has ended, however the walk ended.
C1_ClosedExactlyOnce == (Exited /\ connected) => closeCalls = 1

\* C2: whenever putFile returned an error, of whatever kind, the run ends
\* Failed: no completion line, non-zero exit status.
C2_UploadErrorFails == (Exited /\ putErr # Nil) => Failed

\* C3: smbTarget.upload: in every state during or after an upload whose
\* write failed at some step, the destination path holds what it held when
\* the upload began (its old content, or nothing); never a partial file.
C3_DestinationIntact ==
    (Kind = "smb" /\ writeFailed /\ (Uploading \/ pc = "put_ret")) =>
        /\ ContentAt(RemotePathOf(idx)) = preDst
        /\ ~Partial(ContentAt(RemotePathOf(idx)), idx)

\* C4: no file is looked up or uploaded more than once; and when the walk
\* has ended without being aborted, every file has been looked up exactly
\* once, and no file was uploaded whose lookup gave a timestamp (not the
\* zero value) greater than or equal to the local one.
C4_OneLookupPerFile ==
    /\ \A i \in Entries : lookups[i] <= 1 /\ uploads[i] <= 1
    /\ \A i \in Entries : Tree[i].dir => lookups[i] = 0 /\ uploads[i] = 0
    /\ (pc \in {"main_end", "exited"} /\ connected /\ ~Aborted) =>
          \A i \in Files :
             /\ lookups[i] = 1
             /\ (seenTime[i] # 0 /\ seenTime[i] >= Tree[i].mtime) => uploads[i] = 0

C4_Witness ==
    /\ Done /\ ~Aborted
    /\ \E i \in Files : seenTime[i] = Tree[i].mtime /\ uploads[i] = 0
    /\ \E i \in Files : seenTime[i] > Tree[i].mtime /\ uploads[i] = 0
    /\ \E i \in Files : uploads[i] = 1

\* C5: newer(local, remote) is true exactly when remote is the zero value
\* or local is strictly after remote; equal non-zero timestamps give false.
C5_NewerIff ==
    cpc = "out" =>
        /\ cres <=> (cr = 0 \/ cl > cr)
        /\ (cl = cr /\ cr # 0) => ~cres

C5_Witness == cpc = "out" /\ cl = cr /\ cr # 0 /\ ~cres

\* C6: a failed remote timestamp lookup never ends or fails the run: the
\* timestamp compared is the zero value, the callback goes on to upload the
\* file, and a run that exits through log.Fatal does so because of a failed
\* connect, a fatal upload error or a fatal walk error, never a lookup.
C6_LookupFailureTolerated ==
    /\ []((exitCode = 1) => (~connected \/ Fatal(putErr) \/ Fatal(walkErr)))
    /\ []((pc = "decide" /\ mtimeErr # Nil) => remoteTime = 0)
    /\ [][(pc = "decide" /\ mtimeErr # Nil /\ localInfo # 0) =>
             /\ pc' \in {"ftp_mkdir", "smb_mkdir"}
             /\ uploads'[idx] = uploads[idx] + 1
             /\ exitCode' = -1]_vars

C6_Witness ==
    /\ pc \in {"ftp_mkdir", "smb_mkdir"}
    /\ mtimeErr \notin {Nil, ErrNotExist}
    /\ preDst # Absent
    /\ uploads[idx] = 1

\* C7: if the backend's connect fails, the process exits non-zero without
\* entering the walk: no lookup, no upload, no progress line, no completion
\* line.
C7_ConnectFailureStopsRun ==
    (Kind \in {"ftp", "smb"} /\ pc # "start" /\ ~connected) =>
        /\ Failed
        /\ \A i \in Entries : lookups[i] = 0 /\ uploads[i] = 0 /\ progress[i] = 0
        /\ idx = 0

C7_Witness == Kind \in {"ftp", "smb"} /\ Exited /\ ~connected /\ exitCode = 1

\* C8: an error of the traversal itself that is "path does not exist" lets
\* the run end Done (completion line, exit status 0); any other error of
\* the traversal makes it end Failed.
C8_WalkErrorPolicy ==
    (Exited /\ walkErr # Nil) =>
        IF walkErr = ErrNotExist THEN Done ELSE Failed

C8_Witness == Done /\ walkErr = ErrNotExist /\ \E i \in Files : uploads[i] = 1

\* C9: for both backends, when upload starts writing the file's content
\* (STOR, resp. creating the temporary file), every ancestor directory of
\* the destination exists on the remote side, whichever of them existed
\* before; stated for the runs in which the remote side refused no
\* directory creation.
C9_AncestorsExist ==
    /\ (pc = "ftp_stor" /\ ~refused) =>
          Ancestors(FtpResolve(ftpRemote(RelOf(idx)))) \subseteq rdirs
    /\ (pc = "smb_create" /\ ~refused) =>
          Ancestors(SmbResolve(smbDst(RelOf(idx)))) \subseteq rdirs

\* C10: a failure to create a remote directory during upload, other than
\* the directory existing, ends the run Failed.
C10_MkdirFailureFatal == (Exited /\ mkdirFailed) => Failed

\* a step leaves the remote file at path p as it is: there or not, and its
\* content
Unchanged(p) ==
    /\ (p \in DOMAIN rfiles') <=> (p \in DOMAIN rfiles)
    /\ p \in DOMAIN rfiles => rfiles'[p].data = rfiles[p].data

\* C11: when the upload of a file fails, every file uploaded before it (its
\* putFile returned nil) is still on the remote side and no later step
\* changes it, and no lookup or upload follows for any later file.
C11_FailureKeepsEarlierUploads ==
    /\ [](\A i \in Files : (i < idx /\ uploads[i] = 1) =>
              RemotePathOf(i) \in DOMAIN rfiles)
    /\ [][\A i \in Files : (i < idx /\ uploads[i] = 1) =>
              Unchanged(RemotePathOf(i))]_vars
    /\ [][putErr # Nil => (lookups' = lookups /\ uploads' = uploads)]_vars

C11_Witness ==
    /\ Exited /\ putErr # Nil
    /\ idx = 3
    /\ uploads[2] = 1 /\ uploads[3] = 1
    /\ ContentAt(RemotePathOf(2)) = Content(2)
    /\ lookups[5] = 0 /\ uploads[5] = 0

\* the lookup of the current file was answered by a listing (LIST did not
\* fail) that holds no entry with the file's base name
NoMatchingEntry ==
    /\ Kind = "ftp"
    /\ pc = "decide"
    /\ mtimeErr # ErrFTP
    /\ RemotePathOf(idx) \notin DOMAIN rfiles

HasRel == pc \in {"mtime", "decide", "put_ret"} \/ Uploading

\* C13: the relative path passed to the lookup and to the upload is the
\* file's path segments joined by "/": no backslash separates two segments,
\* also where the local path is separated by backslashes.
C13_RelIsSlashSeparated ==
    HasRel => /\ RelOf(idx) = StringsJoin(Tree[idx].segs, "/")
              /\ \A k \in 1..Len(RelOf(idx)) : RelOf(idx)[k] # "\\"

C13_Witness ==
    /\ goos = "windows" /\ Separator = "\\"
    /\ idx = 5 /\ lookups[5] = 1 /\ Uploading
    /\ RelOf(5) = <<"s", "/", "c">>

FtpSpellings == {"ftp", "Ftp", "FTP"}
SmbSpellings == {"smb", "Smb", "SMB"}

\* C14: a transport kind that is no spelling of "ftp" or "smb" ends the run
\* at startup with a non-zero exit status: no connection is made, no entry is
\* walked, no close is performed.  A spelling of "ftp" or "smb" in any letter
\* case selects that backend: its uploads run that backend's steps.
C14_UnknownKindIsFatal ==
    /\ ctype \notin (FtpSpellings \cup SmbSpellings) =>
          /\ ~connected /\ ~live /\ closeCalls = 0
          /\ idx = 0 /\ \A i \in Files : lookups[i] = 0 /\ uploads[i] = 0
          /\ ~complete
          /\ pc \in {"start", "exited"}
          /\ pc = "exited" => exitCode = 1
    /\ (ctype \in FtpSpellings /\ Uploading) =>
          pc \in {"ftp_mkdir", "ftp_open", "ftp_stor"}
    /\ (ctype \in SmbSpellings /\ Uploading) =>
          pc \notin {"ftp_mkdir", "ftp_open", "ftp_stor"}

C14_Witness ==
    /\ ctype = "nfs"
    /\ pc = "exited" /\ exitCode = 1
    /\ ~connected /\ closeCalls = 0 /\ idx = 0

\* C15: the SMB upload renames the temporary file onto the destination only
\* when the create, the copy and the close of the temporary file all
\* succeeded, so that the temporary file holds the full local content.
C15_RenameOnlyAfterFullWrite ==
    [][(pc = "smb_rename" /\ putErr' = Nil) =>
          /\ ~writeFailed
          /\ rfiles[SmbResolve(smbTmp(RelOf(idx)))].data = Content(idx)]_vars

\* C16: putFile is called only when the comparator returned true for the
\* file, and every call is preceded by exactly one progress line for the
\* file, printed before the transfer begins, also when the transfer fails.
C16_ProgressLinePerUpload ==
    /\ [](\A i \in Files : progress[i] = uploads[i] /\ uploads[i] <= 1)
    /\ []((Uploading \/ pc = "put_ret") =>
             /\ newer(localInfo, remoteTime)
             /\ progress[idx] = 1 /\ uploads[idx] = 1)
    /\ [][uploads' # uploads =>
             /\ pc = "decide" /\ newer(localInfo, remoteTime)
             /\ progress'[idx] = progress[idx] + 1
             /\ rfiles' = rfiles /\ rdirs' = rdirs]_vars

C16_Witness ==
    /\ pc = "put_ret" /\ putErr # Nil
    /\ progress[idx] = 1 /\ uploads[idx] = 1
    /\ \E i \in Files : i < idx /\ lookups[i] = 1 /\ uploads[i] = 0

\* a step talks to the backend: a lookup, the start of an upload, or a
\* change of the remote side
BackendStep ==
    \/ lookups' # lookups
    \/ uploads' # uploads
    \/ rfiles' # rfiles
    \/ rdirs' # rdirs

\* C17: every lookup and every upload happens while the one backend session
\* is live, after the connect and before the close, and all of them go to
\* the backend selected at startup.
C17_OperationsWithinSession ==
    /\ [][BackendStep => (connected /\ live /\ closeCalls = 0)]_vars
    /\ []((Uploading \/ pc \in {"mtime", "decide", "put_ret"}) =>
             (connected /\ live /\ closeCalls = 0))
    /\ [][ctype' = ctype]_vars
    /\ [](Uploading =>
             (Kind = "ftp" <=> pc \in {"ftp_mkdir", "ftp_open", "ftp_stor"}))
    /\ [](live => (connected /\ closeCalls = 0 /\ Supported(Kind)))

C17_Witness ==
    /\ Exited /\ connected /\ ~live /\ closeCalls = 1
    /\ \E i, j \in Files : i # j /\ lookups[i] = 1 /\ uploads[j] = 1
    /\ rfiles # << >>

\* no local operation of the run failed: the walk met no error, and an
\* upload that failed did so on the remote side, after the local file was
\* opened
LocalTreeIntact == walkErr = Nil /\ (putErr # Nil => writeFailed)

\* putFile was called for file i and returned nil
Uploaded(i) == uploads[i] = 1 /\ (i < idx \/ putErr = Nil)

\* C18: when the run ends Done and the local tree stayed as it was, every
\* regular file of the tree has a remote file at its relative path, and that
\* file either was uploaded in this run or was seen with a timestamp not
\* older than the local one.
C18_DoneMeansSynced ==
    (Done /\ LocalTreeIntact) =>
        \A i \in Files :
           /\ RemotePathOf(i) \in DOMAIN rfiles
           /\ \/ Uploaded(i)
              \/ uploads[i] = 0 /\ lookups[i] = 1
                   /\ seenTime[i] >= Tree[i].mtime

\* the remote paths of the files of the tree other than the current one
OtherPaths == {RemotePathOf(i) : i \in Files \ {idx}}

\* C19: the upload of one file, whether it succeeds or fails, leaves the
\* remote file at the relative path of every other file of the tree as it
\* was, also when the tree holds both r and r.tmp.
C19_UploadLeavesOthersAlone ==
    [][(Uploading /\ idx \in Files) =>
          \A p \in OtherPaths : Unchanged(p)]_vars

\* C20: the comparator is applied only to a local modification time that
\* os.Stat delivered; a file whose stat fails never makes the process end
\* otherwise than Done or reported Failed by log.Fatal (exit status 1).
C20_StatFailureIsNoCrash ==
    /\ (Uploading \/ pc = "put_ret") => localInfo # 0
    /\ Exited => (Done \/ (Failed /\ exitCode = 1))

====
